---- MODULE Spec2Model ----
(***************************************************************************)
(* The AgroCoin ledger of agrosphere-backend: the Wallet and Transaction   *)
(* rows (blockchain/models.py), the peer transfer request                  *)
(* (blockchain/views.py transfer_tokens calling                            *)
(* EthereumService.transfer_tokens), the periodic sweeper                  *)
(* (blockchain/tasks.py sync_pending_transactions) and the Celery tasks it *)
(* dispatches, the Wallet methods on an instance and the USSD payment      *)
(* callback (ussd/views.py ussd_payment_callback).                         *)
(* Amounts are in hundredths of an AgroCoin (DecimalField                  *)
(* with decimal_places=2).  A request or task works on its own in-memory   *)
(* copy of a row (a Django model instance); the stored row changes only    *)
(* through save().                                                         *)
(***************************************************************************)
EXTENDS Integers, Sequences, FiniteSets, TLC

\* ---------------------------------------------------------------- bounds
Users == {"u1", "u2"}
Phones == Users \cup {"nobody"}
Requests == {"r1", "r2"}
Sweepers == {"s1", "s2"}
Amounts == {-500, 0, 6000, 20000}
InitBalance == 10000
MaxTx == 3
MaxTime == 30
TickHours == 25
MaxSweeps == 2
MaxRedeliver == 1
MaxHash == 2
WalletAmounts == {-500, 0, 2500}
Balances == {0, 2500, 10000}
UssdNaira == {-200000, 0, 25000}
References == {"ref1", "ref2"}
MaxCalls == 2
MaxPurchases == 2
Recorders == {"p1", "p2"}
MaxPrices == 3
HoursPerDay == 24
YearHours == 8760
NewPhones == {"n1", "n2"}
ChainBalances == {0, 2500, 10000}
Levels == 0..5
Choices == {"1", "2"}
InvestAmounts == {2500, 6000}
MaturityDays == {0, 1}
MinimumInvestment == 2500
TargetAmount == 20000
SessionActions == {"none", "register"}

\* ------------------------------------------------------ program constants
Rate == 1000
StalenessHours == 24
BatchLimit == 50
MaxRetries == 3

VARIABLES
    mode,          \* settings.DEMO_MODE / ENABLE_WEB3: "demo" or "onchain"
    now,           \* timezone.now() / time.time(), in hours
    wallets,       \* table wallets: user -> stored row
    transactions,  \* table transactions: sequence of stored rows, id = index
    req,           \* one record per in-flight HTTP request (transfer_tokens)
    sweep,         \* one record per running sync_pending_transactions task
    sweeps,        \* number of sweeps started so far
    queue,         \* Celery queue 'blockchain': <<task, tx id>> -> messages waiting
    redelivered,   \* number of messages requeued after a lost worker
    chain,         \* settlement network: chain hash number -> receipt status
    nextHash,      \* next hash number the settlement network hands out
    refunds,       \* history: tx id -> add_balance calls made by handle_failed_transaction
    sms,           \* history: <<kind, tx id>> -> notifications dispatched
    timedout,      \* history: hash numbers whose receipt the submitting call did not get in time
    inst,          \* a Wallet instance outside transfer_tokens and the calls made on it
    purchases,     \* table token_purchases: sequence of stored rows
    prices,        \* table price_history: sequence of stored rows
    rec,           \* one record per running record_price_history task
    accounts,      \* table users, new phone numbers: phone -> "none", "user", "superuser"
    profiles,      \* table user_profiles: new phone numbers that have a row
    walletRows,    \* table wallets, new phone numbers: phone -> number of rows
    ussdResponse,  \* history: phone -> last answer of ussd_callback
    investments,    \* Investment rows (status, amount_ac, payment_transaction)
    opportunity,    \* the InvestmentOpportunity row the investments belong to
    farmInvestments,\* FarmInvestment rows
    maturity,       \* the process_matured_investments task: position, retries
    investResponse  \* HTTP status of the last invest request, 0 before any

vars == <<mode, now, wallets, transactions, req, sweep, sweeps, queue,
          redelivered, chain, nextHash, refunds, sms, timedout, inst, purchases,
          prices, rec,
          accounts, profiles, walletRows, ussdResponse,
          investments, opportunity, farmInvestments, maturity, investResponse>>

TxIds == 1..MaxTx
HashNums == 1..MaxHash
TaskNames == {"process_confirmed_transaction", "handle_failed_transaction",
              "update_investment_record"}
SmsKinds == {"confirmed_sender", "confirmed_recipient", "failed_sender"}

\* ------------------------------------------------------------- Wallet
\* An in-memory Wallet instance / a stored row (the two balance columns).
NewWallet(balance) ==
    [agrocoin_balance |-> balance, naira_equivalent |-> balance * Rate]

NoWallet == [agrocoin_balance |-> 0, naira_equivalent |-> 0]

\* Wallet.update_naira_equivalent, in-memory part.
update_naira_equivalent(w) ==
    [w EXCEPT !.naira_equivalent = w.agrocoin_balance * Rate]

\* Wallet.update_naira_equivalent, the save(update_fields=[...]) part: the
\* columns of the stored row that the UPDATE statement writes.
save_naira_equivalent(row, w) ==
    [row EXCEPT !.naira_equivalent = w.naira_equivalent]

has_sufficient_balance_unchecked(w, amount) == TRUE

has_sufficient_balance(w, amount) == w.agrocoin_balance >= amount

add_balance_drift(w, amount) ==
    update_naira_equivalent([w EXCEPT !.agrocoin_balance = @ + amount - 1])

add_balance(w, amount) ==
    update_naira_equivalent([w EXCEPT !.agrocoin_balance = @ + amount])

\* Wallet.deduct_balance when it does not raise (CanDeduct).
CanDeduct(w, amount) == has_sufficient_balance(w, amount)

deduct_balance(w, amount) ==
    update_naira_equivalent([w EXCEPT !.agrocoin_balance = @ - amount])

\* ------------------------------------------------------------- hashes
NoHash == [src |-> "none", n |-> 0, from |-> "", to |-> "", amt |-> 0]

ChainHash(k) == [src |-> "chain", n |-> k, from |-> "", to |-> "", amt |-> 0]

\* EthereumService.transfer_tokens, DEMO_MODE branch: sha256 of sender key,
\* recipient key, amount and time.time(): equal inputs give equal hashes.
DemoHash(from, to, amount, t) ==
    [src |-> "demo", n |-> t, from |-> from, to |-> to, amt |-> amount]


\* -------------------------------------------------------- Transaction
\* A stored Transaction row.  from/to are users (wallet owners) or "none";
\* confirmed_at and block_number are -1 while null.
TxRow(from, to, type, amount, naira, hash, status, created, confirmed) ==
    [from |-> from, to |-> to, type |-> type, amount |-> amount,
     naira_value |-> naira, hash |-> hash, status |-> status,
     created_at |-> created, confirmed_at |-> confirmed,
     block_number |-> -1, archived |-> FALSE]

\* The row transfer_tokens (view) inserts after the service call returned.
TransferTxnRow_processing(u, p, amount, hash, t) ==
    TxRow(u, p, "transfer", amount, amount * Rate, hash, "processing", t, -1)

TransferTxnRow(u, p, amount, hash, t) ==
    TxRow(u, p, "transfer", amount, amount * Rate, hash, "confirmed", t, t)

\* unique=True on Transaction.ethereum_tx_hash: an INSERT whose non-null
\* hash is already stored raises IntegrityError.
UniqueViolation_off(txs, h) == FALSE

UniqueViolation(txs, h) ==
    /\ h # NoHash
    /\ \E i \in 1..Len(txs) : txs[i].hash = h

\* ------------------------------------------------------------ requests
IdleReq ==
    [pc |-> "idle", user |-> "none", phone |-> "none", amount |-> 0,
     sw |-> NoWallet, rw |-> NoWallet, sw0 |-> 0, rw0 |-> 0,
     hash |-> NoHash, locked |-> {}, rows |-> [u \in Users |-> NoWallet],
     result |-> "none", txid |-> 0, overlap |-> {}]

Finished(q, result) == [IdleReq EXCEPT !.pc = "done", !.result = result]

\* Answers: success 201; invalid_amount, insufficient, self 400; not_found
\* 404; transfer_failed, rejected, timeout, integrity_error, deadlock 500
\* (the details differ).
InFlight == {r \in Requests : req[r].pc \notin {"idle", "done"}}

\* Rows on which another request's open database transaction holds the
\* row lock taken by its UPDATE.
LockedByOther(r, u) == \E o \in Requests \ {r} : u \in req[o].locked

\* views.py transfer_tokens, lines 176-196: parse, validate the amount, load
\* the sender's wallet and check its balance.  overlap is history: the
\* requests in flight when this one arrived.
InvalidAmount_negative(amount) == amount < 0

\* views.py line 181: if amount <= 0.
InvalidAmount(amount) == amount <= 0

SelfTransfer_off(user, phone) == FALSE

\* views.py line 209: if sender_wallet.id == recipient_wallet.id.
SelfTransfer(user, phone) == phone = user

TransferBegin(r, u, p, a) ==
    /\ req[r].pc \in {"idle", "done"}
    /\ Len(transactions) + Cardinality(InFlight) < MaxTx
    /\ LET q == [IdleReq EXCEPT !.user = u, !.phone = p, !.amount = a]
           sender_wallet == wallets[u]
           mine == IF InvalidAmount(a) THEN Finished(q, "invalid_amount")
                   ELSE IF ~has_sufficient_balance(sender_wallet, a)
                        THEN Finished(q, "insufficient")
                   ELSE [q EXCEPT !.pc = "find", !.sw = sender_wallet,
                                  !.sw0 = sender_wallet.agrocoin_balance,
                                  !.overlap = InFlight]
       IN  req' = [o \in Requests |->
                     IF o = r THEN mine
                     ELSE [req[o] EXCEPT !.overlap = @ \ {r}]]
    /\ UNCHANGED <<mode, now, wallets, transactions, sweep, sweeps, queue,
                   redelivered, chain, nextHash, refunds, sms,
                   timedout, inst, purchases,
                   prices, rec,
                   accounts, profiles, walletRows, ussdResponse,
                   investments, opportunity, farmInvestments, maturity, investResponse>>

\* views.py transfer_tokens, lines 198-212: find the recipient and its
\* wallet, reject a transfer to oneself.
TransferFindRecipient(r) ==
    /\ req[r].pc = "find"
    /\ LET q == req[r]
       IN  req' = [req EXCEPT ![r] =
                IF q.phone \notin Users THEN Finished(q, "not_found")
                ELSE IF SelfTransfer(q.user, q.phone) THEN Finished(q, "self")
                ELSE [q EXCEPT !.pc = "exec", !.rw = wallets[q.phone],
                               !.rw0 = wallets[q.phone].agrocoin_balance]]
    /\ UNCHANGED <<mode, now, wallets, transactions, sweep, sweeps, queue,
                   redelivered, chain, nextHash, refunds, sms,
                   timedout, inst, purchases,
                   prices, rec,
                   accounts, profiles, walletRows, ussdResponse,
                   investments, opportunity, farmInvestments, maturity, investResponse>>

\* ethereum_service.py transfer_tokens lines 302-325 with
\* _execute_token_transfer lines 358-403: the balance check on the in-memory
\* sender, then the mock hash (DEMO_MODE) or the on-chain transfer.  The
\* network refuses the submission (rejected: send_raw_transaction or a call
\* before it raises, nothing reaches the chain), or accepts it and the call
\* waits for the receipt: status 1 (confirmed), status 0 (failed), or no
\* receipt within the timeout (pending).
TransferExecute(r, outcome) ==
    /\ req[r].pc = "exec"
    /\ LET q == req[r]
       IN  IF ~has_sufficient_balance(q.sw, q.amount)
           THEN /\ req' = [req EXCEPT ![r] = Finished(q, "transfer_failed")]
                /\ UNCHANGED <<chain, nextHash, timedout>>
           ELSE IF mode = "demo"
           THEN /\ outcome = "confirmed"
                /\ req' = [req EXCEPT ![r].pc = "debit",
                              ![r].hash = DemoHash(q.user, q.phone, q.amount, now)]
                /\ UNCHANGED <<chain, nextHash, timedout>>
           ELSE IF outcome = "rejected"
           THEN /\ req' = [req EXCEPT ![r] = Finished(q, "rejected")]
                /\ UNCHANGED <<chain, nextHash, timedout>>
           ELSE /\ nextHash <= MaxHash
                /\ chain' = [chain EXCEPT ![nextHash] = outcome]
                /\ nextHash' = nextHash + 1
                /\ timedout' = IF outcome = "pending"
                               THEN timedout \cup {nextHash} ELSE timedout
                /\ req' = [req EXCEPT ![r] =
                       IF outcome = "confirmed"
                       THEN [q EXCEPT !.pc = "debit", !.hash = ChainHash(nextHash)]
                       ELSE IF outcome = "pending" THEN Finished(q, "timeout")
                       ELSE Finished(q, "transfer_failed")]
    /\ UNCHANGED <<mode, now, wallets, transactions, sweep, sweeps, queue,
                   redelivered, refunds, sms, inst, purchases,
                   prices, rec,
                   accounts, profiles, walletRows, ussdResponse,
                   investments, opportunity, farmInvestments, maturity, investResponse>>

\* The row an UPDATE inside r's database transaction starts from: its own
\* uncommitted version if it already wrote the row, else the committed row.
CurrentRow(r, u) == IF u \in req[r].locked THEN req[r].rows[u] ELSE wallets[u]

\* ethereum_service.py line 328: from_wallet.deduct_balance(amount_decimal).
TransferDebit(r) ==
    /\ req[r].pc = "debit"
    /\ ~LockedByOther(r, req[r].user)
    /\ LET q == req[r]
       IN  IF ~CanDeduct(q.sw, q.amount)
           THEN req' = [req EXCEPT ![r] = Finished(q, "transfer_failed")]
           ELSE LET w == deduct_balance(q.sw, q.amount)
                IN req' = [req EXCEPT ![r].pc = "credit", ![r].sw = w,
                              ![r].locked = @ \cup {q.user},
                              ![r].rows[q.user] =
                                  save_naira_equivalent(CurrentRow(r, q.user), w)]
    /\ UNCHANGED <<mode, now, wallets, transactions, sweep, sweeps, queue,
                   redelivered, chain, nextHash, refunds, sms,
                   timedout, inst, purchases,
                   prices, rec,
                   accounts, profiles, walletRows, ussdResponse,
                   investments, opportunity, farmInvestments, maturity, investResponse>>

\* ethereum_service.py line 329: to_wallet.add_balance(amount_decimal).
TransferCredit(r) ==
    /\ req[r].pc = "credit"
    /\ ~LockedByOther(r, req[r].phone)
    /\ LET q == req[r]
           w == add_balance(q.rw, q.amount)
       IN  req' = [req EXCEPT ![r].pc = "record", ![r].rw = w,
                      ![r].locked = @ \cup {q.phone},
                      ![r].rows[q.phone] =
                          save_naira_equivalent(CurrentRow(r, q.phone), w)]
    /\ UNCHANGED <<mode, now, wallets, transactions, sweep, sweeps, queue,
                   redelivered, chain, nextHash, refunds, sms,
                   timedout, inst, purchases,
                   prices, rec,
                   accounts, profiles, walletRows, ussdResponse,
                   investments, opportunity, farmInvestments, maturity, investResponse>>

\* The committed wallets table after r's database transaction commits.
Commit(r) ==
    [u \in Users |-> IF u \in req[r].locked THEN req[r].rows[u] ELSE wallets[u]]

\* views.py transfer_tokens lines 224-255: insert the Transaction and leave
\* the atomic block (commit); an IntegrityError on the hash rolls the block
\* back and is answered with 500 (lines 261-266).
TransferRecord(r) ==
    /\ req[r].pc = "record"
    /\ LET q == req[r]
       IN  IF UniqueViolation(transactions, q.hash)
           THEN /\ req' = [req EXCEPT ![r] = Finished(q, "integrity_error")]
                /\ UNCHANGED <<wallets, transactions>>
           ELSE /\ transactions' = Append(transactions,
                       TransferTxnRow(q.user, q.phone, q.amount, q.hash, now))
                /\ wallets' = Commit(r)
                /\ req' = [req EXCEPT ![r].pc = "done", ![r].result = "success",
                              ![r].txid = Len(transactions) + 1,
                              ![r].locked = {},
                              ![r].rows = [u \in Users |-> NoWallet]]
    /\ UNCHANGED <<mode, now, sweep, sweeps, queue, redelivered, chain,
                   nextHash, refunds, sms,
                   timedout, inst, purchases,
                   prices, rec,
                   accounts, profiles, walletRows, ussdResponse,
                   investments, opportunity, farmInvestments, maturity, investResponse>>

\* Two transfers in opposite directions each hold the row lock the other
\* waits for: the database aborts one of them (OperationalError), the atomic
\* block rolls back and the view answers 500.
TransferDeadlock(r) ==
    /\ req[r].pc = "credit"
    /\ \E o \in Requests \ {r} :
          /\ req[r].phone \in req[o].locked
          /\ req[o].pc = "credit"
          /\ req[o].phone \in req[r].locked
    /\ req' = [req EXCEPT ![r] = Finished(req[r], "deadlock")]
    /\ UNCHANGED <<mode, now, wallets, transactions, sweep, sweeps, queue,
                   redelivered, chain, nextHash, refunds, sms,
                   timedout, inst, purchases,
                   prices, rec,
                   accounts, profiles, walletRows, ussdResponse,
                   investments, opportunity, farmInvestments, maturity, investResponse>>

\* timezone.now() / time.time() advancing.
Tick ==
    /\ now + TickHours <= MaxTime
    /\ now' = now + TickHours
    /\ UNCHANGED <<mode, wallets, transactions, req, sweep, sweeps, queue,
                   redelivered, chain, nextHash, refunds, sms,
                   timedout, inst, purchases,
                   prices, rec,
                   accounts, profiles, walletRows, ussdResponse,
                   investments, opportunity, farmInvestments, maturity, investResponse>>


\* ------------------------------------------------- settlement network
\* EthereumService.verify_transaction: the receipt if there is one, else
\* pending / not_found; any exception of the RPC call gives status error.
verify_transaction(h, rpc_ok) ==
    LET st == IF h.src = "chain" /\ h.n \in HashNums THEN chain[h.n] ELSE "unknown"
    IN  IF ~rpc_ok THEN [confirmed |-> FALSE, status |-> "error", block_number |-> -1]
        ELSE IF st \in {"confirmed", "failed"}
             THEN [confirmed |-> st = "confirmed", status |-> st, block_number |-> h.n]
        ELSE IF st = "pending"
             THEN [confirmed |-> FALSE, status |-> "pending", block_number |-> -1]
        ELSE [confirmed |-> FALSE, status |-> "not_found", block_number |-> -1]

\* The network mines a submitted transaction: its receipt appears.
ChainMine(h, outcome) ==
    /\ chain[h] = "pending"
    /\ chain' = [chain EXCEPT ![h] = outcome]
    /\ UNCHANGED <<mode, now, wallets, transactions, req, sweep, sweeps, queue,
                   redelivered, nextHash, refunds, sms,
                   timedout, inst, purchases,
                   prices, rec,
                   accounts, profiles, walletRows, ussdResponse,
                   investments, opportunity, farmInvestments, maturity, investResponse>>

\* A chain reorganisation (or another node of the RPC endpoint) replaces a
\* receipt by one with the other status; verify_transaction asks for no
\* confirmation depth.
ChainReorg(h) ==
    /\ chain[h] \in {"confirmed", "failed"}
    /\ chain' = [chain EXCEPT ![h] = IF @ = "confirmed" THEN "failed" ELSE "confirmed"]
    /\ UNCHANGED <<mode, now, wallets, transactions, req, sweep, sweeps, queue,
                   redelivered, nextHash, refunds, sms,
                   timedout, inst, purchases,
                   prices, rec,
                   accounts, profiles, walletRows, ussdResponse,
                   investments, opportunity, farmInvestments, maturity, investResponse>>

\* ------------------------------------------------------------- sweeper
IdleSweep == [pc |-> "idle", pending |-> <<>>,
              verification |-> [confirmed |-> FALSE, status |-> "none",
                                block_number |-> -1]]

RECURSIVE NewestFirst(_, _, _)
\* Ids i..1 of the rows the sweeper's filter selects (tasks.py lines 28-31).
NewestFirst(txs, i, t) ==
    IF i = 0 THEN <<>>
    ELSE IF /\ txs[i].status \in {"pending", "processing"}
            /\ txs[i].created_at >= t - StalenessHours
         THEN <<[id |-> i, hash |-> txs[i].hash]>> \o NewestFirst(txs, i - 1, t)
         ELSE NewestFirst(txs, i - 1, t)

\* The evaluated queryset pending_txs: newest first, at most BatchLimit rows.
PendingQuery(txs, t) ==
    LET all == NewestFirst(txs, Len(txs), t)
    IN  IF Len(all) > BatchLimit THEN SubSeq(all, 1, BatchLimit) ELSE all

\* sync_pending_transactions lines 19-35: skipped in demo mode, else the
\* queryset is read once.
ReadBatch(s) ==
    /\ sweep[s].pc = "idle"
    /\ LET pending_txs == PendingQuery(transactions, now)
       IN  sweep' = [sweep EXCEPT ![s] =
                IF mode = "demo" \/ pending_txs = <<>> THEN IdleSweep
                ELSE [IdleSweep EXCEPT !.pc = "verify", !.pending = pending_txs]]
    /\ UNCHANGED <<mode, now, wallets, transactions, req, queue, redelivered,
                   chain, nextHash, refunds, sms,
                   timedout, inst, purchases,
                   prices, rec,
                   accounts, profiles, walletRows, ussdResponse,
                   investments, opportunity, farmInvestments, maturity, investResponse>>

\* A run of sync_pending_transactions, counted.
SweepStart(s) ==
    /\ sweeps < MaxSweeps
    /\ sweeps' = sweeps + 1
    /\ ReadBatch(s)

\* A run of sync_pending_transactions started by Celery beat every five
\* minutes, for as long as the system is up.
PeriodicSweep(s) ==
    /\ ReadBatch(s)
    /\ UNCHANGED sweeps

\* The sweep's loop moves to the next row, or returns after the last one.
NextRow(sw) ==
    IF Len(sw.pending) <= 1 THEN IdleSweep
    ELSE [IdleSweep EXCEPT !.pc = "verify", !.pending = Tail(sw.pending)]

\* sync_pending_transactions lines 41-48: skip a row without hash, else ask
\* the network.
SweepVerify(s, rpc_ok) ==
    /\ sweep[s].pc = "verify"
    /\ LET tx == Head(sweep[s].pending)
       IN  sweep' = [sweep EXCEPT ![s] =
                IF tx.hash = NoHash THEN NextRow(sweep[s])
                ELSE [sweep[s] EXCEPT !.pc = "apply",
                          !.verification = verify_transaction(tx.hash, rpc_ok)]]
    /\ UNCHANGED <<mode, now, wallets, transactions, req, sweeps, queue,
                   redelivered, chain, nextHash, refunds, sms,
                   timedout, inst, purchases,
                   prices, rec,
                   accounts, profiles, walletRows, ussdResponse,
                   investments, opportunity, farmInvestments, maturity, investResponse>>

\* tx.save(update_fields=['status', 'confirmed_at', 'block_number',
\* 'gas_used']) of lines 52-56: the UPDATE writes these columns of the row
\* whatever the row holds now.
SaveConfirmed(row, v, t) ==
    [row EXCEPT !.status = "confirmed", !.confirmed_at = t,
                !.block_number = v.block_number]

SaveFailed_all(row) == [row EXCEPT !.status = "failed", !.amount = 0]

\* tx.save(update_fields=['status']) of lines 65-66.
SaveFailed(row) == [row EXCEPT !.status = "failed"]

Enqueue(q, task, id) == [q EXCEPT ![<<task, id>>] = @ + 1]

\* sync_pending_transactions lines 50-73: act on the verification.
SweepApply(s) ==
    /\ sweep[s].pc = "apply"
    /\ LET tx == Head(sweep[s].pending)
           v == sweep[s].verification
       IN  IF v.confirmed
           THEN /\ transactions' = [transactions EXCEPT
                                       ![tx.id] = SaveConfirmed(@, v, now)]
                /\ queue' = Enqueue(queue, "process_confirmed_transaction", tx.id)
           ELSE IF v.status = "failed"
           THEN /\ transactions' = [transactions EXCEPT ![tx.id] = SaveFailed(@)]
                /\ queue' = Enqueue(queue, "handle_failed_transaction", tx.id)
           ELSE UNCHANGED <<transactions, queue>>
    /\ sweep' = [sweep EXCEPT ![s] = NextRow(sweep[s])]
    /\ UNCHANGED <<mode, now, wallets, req, sweeps, redelivered, chain,
                   nextHash, refunds, sms,
                   timedout, inst, purchases,
                   prices, rec,
                   accounts, profiles, walletRows, ussdResponse,
                   investments, opportunity, farmInvestments, maturity, investResponse>>

\* cleanup_old_transactions: every confirmed, failed or cancelled row created
\* more than 365 days ago gets metadata['archived'] = True, written with
\* save(update_fields=['metadata']).
Archivable(tx, t) ==
    /\ tx.created_at < t - YearHours
    /\ tx.status \in {"confirmed", "failed", "cancelled"}

CleanupOldTransactions ==
    /\ transactions' = [i \in 1..Len(transactions) |->
                           IF Archivable(transactions[i], now)
                           THEN [transactions[i] EXCEPT !.archived = TRUE]
                           ELSE transactions[i]]
    /\ UNCHANGED <<mode, now, wallets, req, sweep, sweeps, queue, redelivered,
                   chain, nextHash, refunds, sms, timedout, inst, purchases,
                   prices, rec, accounts, profiles, walletRows, ussdResponse,
                   investments, opportunity, farmInvestments, maturity, investResponse>>

\* --------------------------------------------------------- Celery tasks
\* A message leaves the queue when its task is acknowledged; with
\* task_acks_late and task_reject_on_worker_lost (celery.py lines 80-81) a
\* worker lost after running the task leaves the message to be delivered
\* again.
Deliver(task, id, lost) ==
    /\ queue[<<task, id>>] > 0
    /\ IF lost
       THEN /\ redelivered < MaxRedeliver
            /\ redelivered' = redelivered + 1
       ELSE UNCHANGED redelivered

\* The queue once the delivery is over.
AfterDelivery(task, id, lost) ==
    IF lost THEN queue ELSE [queue EXCEPT ![<<task, id>>] = @ - 1]

\* A delivery of a task that dispatches no other task.
Delivered(task, id, lost) ==
    /\ Deliver(task, id, lost)
    /\ queue' = AfterDelivery(task, id, lost)

Notify(m, kind, id) == [m EXCEPT ![<<kind, id>>] = @ + 1]

\* process_confirmed_transaction: notify the sender and the recipient, and
\* dispatch update_investment_record for a transaction of type investment.
ProcessConfirmedTransaction(id, lost) ==
    /\ Deliver("process_confirmed_transaction", id, lost)
    /\ LET tx == transactions[id]
           m1 == IF tx.from # "none" THEN Notify(sms, "confirmed_sender", id) ELSE sms
           q  == AfterDelivery("process_confirmed_transaction", id, lost)
       IN  /\ sms' = IF tx.to # "none" THEN Notify(m1, "confirmed_recipient", id) ELSE m1
           /\ queue' = IF tx.type = "investment"
                       THEN Enqueue(q, "update_investment_record", id)
                       ELSE q
    /\ UNCHANGED <<mode, now, wallets, transactions, req, sweep, sweeps, chain,
                   nextHash, refunds,
                   timedout, inst, purchases,
                   prices, rec,
                   accounts, profiles, walletRows, ussdResponse,
                   investments, opportunity, farmInvestments, maturity, investResponse>>

\* handle_failed_transaction: add the amount to the sender's freshly loaded
\* wallet and notify the sender.
HandleFailedTransaction(id, lost) ==
    /\ Delivered("handle_failed_transaction", id, lost)
    /\ LET tx == transactions[id]
       IN  /\ IF tx.from # "none" /\ tx.type # "purchase"
              THEN /\ \A r \in Requests : tx.from \notin req[r].locked
                   /\ wallets' = [wallets EXCEPT ![tx.from] =
                          save_naira_equivalent(@, add_balance(@, tx.amount))]
                   /\ refunds' = [refunds EXCEPT ![id] = @ + 1]
              ELSE UNCHANGED <<wallets, refunds>>
           /\ sms' = IF tx.from # "none" THEN Notify(sms, "failed_sender", id) ELSE sms
    /\ UNCHANGED <<mode, now, transactions, req, sweep, sweeps, chain, nextHash,
                   timedout, inst, purchases,
                   prices, rec,
                   accounts, profiles, walletRows, ussdResponse,
                   investments, opportunity, farmInvestments, maturity, investResponse>>

\* ------------------------------------------- Wallet methods, USSD callback
\* A Wallet instance loaded by a caller other than transfer_tokens, and the
\* calls made on it since it was loaded (history).
IdleInst == [user |-> "none", w |-> NoWallet, calls |-> <<>>, result |-> "none"]

Call(op, amount, before, raised) ==
    [op |-> op, amount |-> amount, before |-> before, raised |-> raised]

\* Wallet.objects.get(user=u).
WalletLoad(u) ==
    /\ inst' = [IdleInst EXCEPT !.user = u, !.w = wallets[u]]
    /\ UNCHANGED <<mode, now, wallets, transactions, req, sweep, sweeps, queue,
                   redelivered, chain, nextHash, refunds, sms, timedout,
                   purchases,
                   prices, rec,
                   accounts, profiles, walletRows, ussdResponse,
                   investments, opportunity, farmInvestments, maturity, investResponse>>

\* Wallet.deduct_balance(amount) on the loaded instance: ValueError when the
\* balance does not cover the amount, else the new balance on the instance
\* and the save of update_naira_equivalent.
WalletDeductBalance(x) ==
    /\ inst.user \in Users
    /\ Len(inst.calls) < MaxCalls
    /\ \A r \in Requests : inst.user \notin req[r].locked
    /\ IF ~CanDeduct(inst.w, x)
       THEN /\ inst' = [inst EXCEPT !.calls = Append(@,
                           Call("deduct_balance", x, inst.w, TRUE))]
            /\ UNCHANGED wallets
       ELSE LET w == deduct_balance(inst.w, x)
            IN  /\ inst' = [inst EXCEPT !.w = w, !.calls = Append(@,
                               Call("deduct_balance", x, inst.w, FALSE))]
                /\ wallets' = [wallets EXCEPT ![inst.user] =
                                  save_naira_equivalent(@, w)]
    /\ UNCHANGED <<mode, now, transactions, req, sweep, sweeps, queue,
                   redelivered, chain, nextHash, refunds, sms, timedout,
                   purchases,
                   prices, rec,
                   accounts, profiles, walletRows, ussdResponse,
                   investments, opportunity, farmInvestments, maturity, investResponse>>

\* Wallet.add_balance(amount) on the loaded instance: no check of the amount.
WalletAddBalance(x) ==
    /\ inst.user \in Users
    /\ Len(inst.calls) < MaxCalls
    /\ \A r \in Requests : inst.user \notin req[r].locked
    /\ LET w == add_balance(inst.w, x)
       IN  /\ inst' = [inst EXCEPT !.w = w, !.calls = Append(@,
                           Call("add_balance", x, inst.w, FALSE))]
           /\ wallets' = [wallets EXCEPT ![inst.user] =
                              save_naira_equivalent(@, w)]
    /\ UNCHANGED <<mode, now, transactions, req, sweep, sweeps, queue,
                   redelivered, chain, nextHash, refunds, sms, timedout,
                   purchases,
                   prices, rec,
                   accounts, profiles, walletRows, ussdResponse,
                   investments, opportunity, farmInvestments, maturity, investResponse>>

\* ussd/views.py line 447: ac_amount = float(amount) / conversion_rate, here
\* in hundredths of an AgroCoin for an amount in whole naira.
ussd_agrocoin_amount(naira) == (naira * 100) \div Rate

\* A stored TokenPurchase row.
PurchaseRow(u, naira, ref) ==
    [user |-> u, naira_amount |-> naira,
     agrocoin_amount |-> ussd_agrocoin_amount(naira),
     payment_reference |-> ref, status |-> "completed"]

\* unique=True on TokenPurchase.payment_reference.
ReferenceTaken(ps, ref) == \E i \in 1..Len(ps) : ps[i].payment_reference = ref

\* User.objects.get(phone_number=...) finds a row: a user of Users, who has
\* a wallet, or an account stored by the provisioning paths.
UserExists(phone) ==
    \/ phone \in Users
    \/ phone \in NewPhones /\ accounts[phone] # "none"

\* ussd/views.py ussd_payment_callback: find the user, insert the
\* TokenPurchase, load the wallet and credit it; every exception is answered
\* with 400 and nothing is rolled back.  The amount comes from the request
\* body as it is.  The accounts of NewPhones have no wallet row.
UssdPaymentCallback(phone, naira, ref) ==
    /\ Len(purchases) < MaxPurchases \/ ReferenceTaken(purchases, ref)
    /\ phone \in NewPhones => walletRows[phone] = 0
    /\ IF ~UserExists(phone) \/ ReferenceTaken(purchases, ref)
       THEN /\ inst' = [IdleInst EXCEPT !.result = "error"]
            /\ UNCHANGED <<wallets, purchases>>
       ELSE IF phone \notin Users
       THEN /\ purchases' = Append(purchases, PurchaseRow(phone, naira, ref))
            /\ inst' = [IdleInst EXCEPT !.result = "error"]
            /\ UNCHANGED wallets
       ELSE LET ac_amount == ussd_agrocoin_amount(naira)
                wallet == wallets[phone]
                w == add_balance(wallet, ac_amount)
            IN  /\ \A r \in Requests : phone \notin req[r].locked
                /\ purchases' = Append(purchases, PurchaseRow(phone, naira, ref))
                /\ wallets' = [wallets EXCEPT ![phone] =
                                  save_naira_equivalent(@, w)]
                /\ inst' = [user |-> phone, w |-> w, result |-> "success",
                            calls |-> <<Call("add_balance", ac_amount,
                                             wallet, FALSE)>>]
    /\ UNCHANGED <<mode, now, transactions, req, sweep, sweeps, queue,
                   redelivered, chain, nextHash, refunds, sms, timedout,
                   prices, rec,
                   accounts, profiles, walletRows, ussdResponse,
                   investments, opportunity, farmInvestments, maturity, investResponse>>

\* ------------------------------------------------- record_price_history
\* timezone.now().date() of a clock reading in hours.
Date(t) == t \div HoursPerDay

\* A stored PriceHistory row; timestamp is auto_now_add.
PriceRow(rate, t) == [rate |-> rate, timestamp |-> t]

IdleRec == [pc |-> "idle", exists |-> FALSE]

\* PriceHistory.objects.filter(timestamp__date=today).exists()
RecordedToday(ps, t) == \E i \in 1..Len(ps) : Date(ps[i].timestamp) = Date(t)

\* record_price_history lines 344-352: read the rate and ask whether a row
\* of today is stored.
RecordCheck(k) ==
    /\ rec[k].pc = "idle"
    /\ Len(prices) + Cardinality({o \in Recorders : rec[o].pc = "checked"})
          < MaxPrices
    /\ rec' = [rec EXCEPT ![k] = [pc |-> "checked",
                                  exists |-> RecordedToday(prices, now)]]
    /\ UNCHANGED <<mode, now, wallets, transactions, req, sweep, sweeps, queue,
                   redelivered, chain, nextHash, refunds, sms, timedout, inst,
                   purchases, prices,
                   accounts, profiles, walletRows, ussdResponse,
                   investments, opportunity, farmInvestments, maturity, investResponse>>

\* record_price_history lines 354-359: insert the row unless the check found
\* one.
RecordCreate(k) ==
    /\ rec[k].pc = "checked"
    /\ prices' = IF rec[k].exists THEN prices
                 ELSE Append(prices, PriceRow(Rate, now))
    /\ rec' = [rec EXCEPT ![k] = IdleRec]
    /\ UNCHANGED <<mode, now, wallets, transactions, req, sweep, sweeps, queue,
                   redelivered, chain, nextHash, refunds, sms, timedout, inst,
                   purchases,
                   accounts, profiles, walletRows, ussdResponse,
                   investments, opportunity, farmInvestments, maturity, investResponse>>

\* ------------------------------------------------------ balance syncing
\* EthereumService.get_token_balance: the balance the contract reports, or
\* Decimal('0') when the contract is not configured or the call raises.
get_token_balance(rpc_ok, onchain_balance) ==
    IF rpc_ok THEN onchain_balance ELSE 0

\* views.py get_wallet: outside demo mode the wallet instance takes the
\* reported balance, update_naira_equivalent saves the fiat-equivalent and
\* wallet.save() writes every column.
GetWallet(u, rpc_ok, onchain_balance) ==
    /\ \A r \in Requests : u \notin req[r].locked
    /\ IF mode = "onchain"
       THEN LET blockchain_balance == get_token_balance(rpc_ok, onchain_balance)
                wallet == update_naira_equivalent(
                    [wallets[u] EXCEPT !.agrocoin_balance = blockchain_balance])
            IN  wallets' = [wallets EXCEPT ![u] = wallet]
       ELSE UNCHANGED wallets
    /\ UNCHANGED <<mode, now, transactions, req, sweep, sweeps, queue,
                   redelivered, chain, nextHash, refunds, sms, timedout, inst,
                   purchases, prices, rec, accounts, profiles, walletRows,
                   ussdResponse,
                   investments, opportunity, farmInvestments, maturity, investResponse>>

\* tasks.py sync_wallet_balances, one wallet of the loop: a reported balance
\* that differs is put on the instance and update_naira_equivalent saves the
\* fiat-equivalent; ethereum_service.get_balance does not exist, so the
\* AttributeError of line 190 ends the iteration before wallet.save().
SyncedRow(row, blockchain_balance) ==
    IF blockchain_balance # row.agrocoin_balance
    THEN save_naira_equivalent(row,
             update_naira_equivalent(
                 [row EXCEPT !.agrocoin_balance = blockchain_balance]))
    ELSE row

\* tasks.py sync_wallet_balances: skipped in demo mode, else every wallet of
\* the batch (active, last_sync null or older than an hour: here all of
\* them) is synced with what the network reports for it.
SyncWalletBalances(rpc_ok, onchain_balance) ==
    /\ \A r \in Requests : req[r].locked = {}
    /\ IF mode = "onchain"
       THEN wallets' = [u \in Users |->
                SyncedRow(wallets[u],
                          get_token_balance(rpc_ok[u], onchain_balance[u]))]
       ELSE UNCHANGED wallets
    /\ UNCHANGED <<mode, now, transactions, req, sweep, sweeps, queue,
                   redelivered, chain, nextHash, refunds, sms, timedout, inst,
                   purchases, prices, rec, accounts, profiles, walletRows,
                   ussdResponse,
                   investments, opportunity, farmInvestments, maturity, investResponse>>

\* ---------------------------------------------------- account provisioning
\* The keys of the dict EthereumService.create_wallet returns.
create_wallet_keys == {"address", "encrypted_private_key"}

\* accounts/models.py UserManager.create_superuser -> create_user: the user
\* row is saved; an existing phone number raises IntegrityError.
CreateSuperuser(phone) ==
    /\ accounts' = IF accounts[phone] = "none"
                   THEN [accounts EXCEPT ![phone] = "superuser"] ELSE accounts
    /\ UNCHANGED <<mode, now, wallets, transactions, req, sweep, sweeps, queue,
                   redelivered, chain, nextHash, refunds, sms, timedout, inst,
                   purchases, prices, rec, profiles, walletRows, ussdResponse,
                   investments, opportunity, farmInvestments, maturity, investResponse>>

\* ussd_callback for a phone number without user (handle_registration), at
\* level = len(text.split('*')), level 0 standing for the empty text.  action
\* is session_data.get('action') as the cache holds it.  Level 5 creates the
\* user and the profile, calls create_wallet and reads 'public_key' from its
\* result inside try/except Exception; nothing is rolled back.
UssdRegistration(phone, level, choice, action) ==
    IF level = 0
    THEN /\ ussdResponse' = [ussdResponse EXCEPT ![phone] = "CON Welcome"]
         /\ UNCHANGED <<accounts, profiles, walletRows>>
    ELSE IF level = 1
    THEN /\ ussdResponse' = [ussdResponse EXCEPT ![phone] =
                IF choice = "1" THEN "CON first name" ELSE "CON PIN"]
         /\ UNCHANGED <<accounts, profiles, walletRows>>
    ELSE IF action # "register"
    THEN /\ ussdResponse' = [ussdResponse EXCEPT ![phone] = "END Invalid input"]
         /\ UNCHANGED <<accounts, profiles, walletRows>>
    ELSE IF level < 5
    THEN /\ ussdResponse' = [ussdResponse EXCEPT ![phone] =
                IF level = 2 THEN "CON last name"
                ELSE IF level = 3 THEN "CON city" ELSE "CON create PIN"]
         /\ UNCHANGED <<accounts, profiles, walletRows>>
    ELSE /\ accounts' = [accounts EXCEPT ![phone] = "user"]
         /\ profiles' = profiles \cup {phone}
         /\ IF "public_key" \in create_wallet_keys
            THEN /\ walletRows' = [walletRows EXCEPT ![phone] = @ + 1]
                 /\ ussdResponse' = [ussdResponse EXCEPT ![phone] =
                                        "END Registration successful"]
            ELSE /\ UNCHANGED walletRows
                 /\ ussdResponse' = [ussdResponse EXCEPT ![phone] =
                                        "END Registration failed"]

\* ussd/views.py ussd_callback: a known phone number gets the menus, an
\* unknown one the registration dialogue.
UssdCallback(phone, level, choice, action) ==
    /\ IF accounts[phone] # "none"
       THEN /\ ussdResponse' = [ussdResponse EXCEPT ![phone] = "CON menu"]
            /\ UNCHANGED <<accounts, profiles, walletRows>>
       ELSE UssdRegistration(phone, level, choice, action)
    /\ UNCHANGED <<mode, now, wallets, transactions, req, sweep, sweeps, queue,
                   redelivered, chain, nextHash, refunds, sms, timedout, inst,
                   purchases, prices, rec,
                   investments, opportunity, farmInvestments, maturity, investResponse>>

\* --------------------------------------------------------------- Init
\* Rows waiting for the sweeper: a processing transfer with a hash the
\* network knows, and a pending one that has no hash yet.
Processing1 ==
    TxRow("u1", "u2", "transfer", 6000, 6000 * Rate, ChainHash(1), "processing", 0, -1)

Pending2 ==
    TxRow("u2", "u1", "transfer", 6000, 6000 * Rate, NoHash, "pending", 0, -1)

InitLedgers == {<<>>, <<Processing1>>, <<Processing1, Pending2>>}

\* The mode, the transactions table and the settlement network.
InitLedger ==
    /\ mode \in {"demo", "onchain"}
    /\ transactions \in (IF mode = "demo" THEN {<<>>} ELSE InitLedgers)
    /\ chain = [h \in HashNums |->
                   IF h = 1 /\ transactions # <<>> THEN "pending" ELSE "unknown"]
    /\ nextHash = IF transactions # <<>> THEN 2 ELSE 1

\* --------------------------------------------------- investment product
\* An InvestmentOpportunity row: the funded total and the investor count.
NewOpportunity ==
    [current_amount_ac |-> 0, total_investors |-> 0, status |-> "active",
     minimum_investment_ac |-> MinimumInvestment, target_amount_ac |-> TargetAmount]

\* day is the date of the task's last run, -1 before the first.
IdleMaturity == [pc |-> "idle", retries |-> 0, day |-> -1]

\* The relations the FarmInvestment model declares.
FarmInvestmentRelations == {"investor", "farm", "crop"}

\* The keyword arguments FarmInvestment(...) accepts: its fields.
FarmInvestmentFields ==
    FarmInvestmentRelations \cup
    {"id", "amount", "expected_roi", "projected_returns", "expected_return_ac",
     "actual_return_ac", "status", "start_date", "maturity_date", "created_at",
     "updated_at"}

\* A stored FarmInvestment row; maturity_date is a day number.
FarmInvestmentRow(investor, amount, status, maturity_date) ==
    [investor |-> investor, amount |-> amount, status |-> status,
     maturity_date |-> maturity_date]

\* Evaluating a queryset with select_related(names) raises FieldError when a
\* name is not a relation of the model.
select_related_ok(names) == names \subseteq FarmInvestmentRelations

\* process_matured_investments, a run started by Celery beat at midnight or
\* a retry.  The queryset of lines 23-26 asks select_related('investor',
\* 'opportunity'); FarmInvestment declares no relation opportunity, so its
\* evaluation at line 28 raises FieldError, the loop of lines 35-89 is not
\* entered, and the handler of lines 96-98 asks for a retry: granted up to
\* max_retries times, after which the task gives up.
ProcessMaturedInvestments ==
    /\ \/ maturity.pc \in {"idle", "retry"}
       \/ maturity.pc = "gave_up" /\ maturity.day < Date(now)
    /\ ~select_related_ok({"investor", "opportunity"})
    /\ LET attempt == IF maturity.pc = "retry" THEN maturity.retries ELSE 0
           day == IF maturity.pc = "retry" THEN maturity.day ELSE Date(now)
       IN  maturity' = IF attempt < MaxRetries
                       THEN [pc |-> "retry", retries |-> attempt + 1, day |-> day]
                       ELSE [pc |-> "gave_up", retries |-> attempt, day |-> day]
    /\ UNCHANGED <<mode, now, wallets, transactions, req, sweep, sweeps, queue,
                   redelivered, chain, nextHash, refunds, sms, timedout, inst,
                   purchases, prices, rec, accounts, profiles, walletRows,
                   ussdResponse, investments, opportunity, farmInvestments,
                   investResponse>>

\* views.py invest: the checks of lines 79-130, then
\* FarmInvestment.objects.create(investor, opportunity, amount, status):
\* opportunity is no field of FarmInvestment, the constructor raises
\* TypeError and the request ends with status 500 before any row is stored.
\* No line of the view debits the wallet.
Invest(u, amount, rpc_ok, onchain_balance) ==
    /\ investResponse' =
          IF opportunity.status # "active" THEN 400
          ELSE IF amount = 0 THEN 400
          ELSE IF amount < opportunity.minimum_investment_ac THEN 400
          ELSE IF opportunity.current_amount_ac + amount > opportunity.target_amount_ac
               THEN 400
          ELSE IF get_token_balance(rpc_ok, onchain_balance) < amount THEN 400
          ELSE IF ~({"investor", "opportunity", "amount", "status"}
                        \subseteq FarmInvestmentFields) THEN 500
          ELSE 201
    /\ investResponse' # 201
    /\ UNCHANGED <<mode, now, wallets, transactions, req, sweep, sweeps, queue,
                   redelivered, chain, nextHash, refunds, sms, timedout, inst,
                   purchases, prices, rec, accounts, profiles, walletRows,
                   ussdResponse, investments, opportunity, farmInvestments,
                   maturity>>

\* A stored Investment row; payment_transaction is the id of its Transaction.
InvestmentRow(investor, amount_ac, status, payment_transaction) ==
    [investor |-> investor, amount_ac |-> amount_ac, status |-> status,
     payment_transaction |-> payment_transaction]

\* Investment.objects.filter(payment_transaction=tx): the ids of the rows.
InvestmentsPaidBy(id) ==
    {i \in 1..Len(investments) : investments[i].payment_transaction = id}

\* opportunity.current_amount_ac += investment.amount_ac;
\* opportunity.total_investors += 1; opportunity.save()
FundOpportunity(opp, inv) ==
    [opp EXCEPT !.current_amount_ac = @ + inv.amount_ac, !.total_investors = @ + 1]

\* update_investment_record: the investment paid by the transaction becomes
\* active and its opportunity's funding is raised.
UpdateInvestmentRecord(id, lost) ==
    /\ Delivered("update_investment_record", id, lost)
    /\ IF InvestmentsPaidBy(id) # {}
       THEN LET i == CHOOSE x \in InvestmentsPaidBy(id) : TRUE
            IN  /\ investments' = [investments EXCEPT ![i].status = "active"]
                /\ opportunity' = FundOpportunity(opportunity, investments[i])
       ELSE UNCHANGED <<investments, opportunity>>
    /\ UNCHANGED <<mode, now, wallets, transactions, req, sweep, sweeps, chain,
                   nextHash, refunds, sms, timedout, inst, purchases, prices, rec,
                   accounts, profiles, walletRows, ussdResponse,
                   farmInvestments, maturity, investResponse>>

\* No investment product data, no investment task running.
InitNoInvestments ==
    /\ investments = <<>>
    /\ opportunity = NewOpportunity
    /\ farmInvestments = <<>>
    /\ maturity = IdleMaturity
    /\ investResponse = 0

\* No request and no task running, the tables of the ledger core empty.
InitTasksIdle ==
    /\ now = 0
    /\ req = [r \in Requests |-> IdleReq]
    /\ sweep = [s \in Sweepers |-> IdleSweep]
    /\ sweeps = 0
    /\ queue = [m \in TaskNames \X TxIds |-> 0]
    /\ redelivered = 0
    /\ refunds = [i \in TxIds |-> 0]
    /\ sms = [m \in SmsKinds \X TxIds |-> 0]
    /\ timedout = {}
    /\ inst = IdleInst
    /\ purchases = <<>>
    /\ prices = <<>>
    /\ rec = [k \in Recorders |-> IdleRec]
    /\ accounts = [p \in NewPhones |-> "none"]
    /\ profiles = {}
    /\ walletRows = [p \in NewPhones |-> 0]
    /\ ussdResponse = [p \in NewPhones |-> "none"]

\* No request and no task running, the other tables empty.
InitIdle ==
    /\ InitNoInvestments
    /\ InitTasksIdle

\* Everything but the wallets table.
InitRest ==
    /\ InitLedger
    /\ InitIdle

\* A confirmed transfer of more than a year ago next to a processing one.
OldConfirmed2 ==
    TxRow("u2", "u1", "transfer", 2500, 2500 * Rate, ChainHash(2), "confirmed",
          0 - YearHours - 1, 0 - YearHours)

ArchiveLedgers == {<<Processing1, OldConfirmed2>>}

\* A ledger that holds a row old enough for cleanup_old_transactions.
InitArchive ==
    /\ wallets = [u \in Users |-> NewWallet(InitBalance)]
    /\ mode = "onchain"
    /\ transactions \in ArchiveLedgers
    /\ chain = [h \in HashNums |-> IF h = 1 THEN "pending" ELSE "confirmed"]
    /\ nextHash = MaxHash + 1
    /\ InitIdle

Init ==
    /\ wallets = [u \in Users |-> NewWallet(InitBalance)]
    /\ InitRest

\* A submitted payment of an investment, and the investment waiting for it.
InvestmentPayment1 ==
    TxRow("u1", "u2", "investment", 6000, 6000 * Rate, ChainHash(1), "processing", 0, -1)

PendingInvestment1 == InvestmentRow("u1", 6000, "pending", 1)

\* An investment whose payment transaction waits for its receipt.
InitInvestment ==
    /\ wallets = [u \in Users |-> NewWallet(InitBalance)]
    /\ mode = "onchain"
    /\ transactions = <<InvestmentPayment1>>
    /\ chain = [h \in HashNums |-> IF h = 1 THEN "pending" ELSE "unknown"]
    /\ nextHash = 2
    /\ InitTasksIdle
    /\ investments = <<PendingInvestment1>>
    /\ opportunity = NewOpportunity
    /\ farmInvestments = <<>>
    /\ maturity = IdleMaturity
    /\ investResponse = 0

\* FarmInvestment tables of up to two active rows.
FarmRows ==
    {FarmInvestmentRow(u, a, "active", d) :
        u \in Users, a \in InvestAmounts, d \in MaturityDays}

FarmLedgers == {<<>>} \cup {<<x>> : x \in FarmRows} \cup (FarmRows \X FarmRows)

\* Active farm investments, some of them maturing today.
InitMaturity ==
    /\ wallets = [u \in Users |-> NewWallet(InitBalance)]
    /\ mode = "demo"
    /\ transactions = <<>>
    /\ chain = [h \in HashNums |-> "unknown"]
    /\ nextHash = 1
    /\ InitTasksIdle
    /\ investments = <<>>
    /\ opportunity = NewOpportunity
    /\ farmInvestments \in FarmLedgers
    /\ maturity = IdleMaturity
    /\ investResponse = 0

\* A processing transfer with a receipt to come, created an hour ago.
Target ==
    TxRow("u1", "u2", "transfer", 6000, 6000 * Rate, ChainHash(1), "processing", -1, -1)

\* A newer pending row that was never submitted: it has no hash.
Waiting ==
    TxRow("u2", "u1", "transfer", 2500, 2500 * Rate, NoHash, "pending", 0, -1)

\* The target followed by k newer rows.
Backlog(k) == <<Target>> \o [i \in 1..k |-> Waiting]

BacklogLedgers == {Backlog(k) : k \in {0, BatchLimit - 1, BatchLimit}}

\* A ledger with a backlog of pending rows newer than the target.
InitBacklog ==
    /\ wallets = [u \in Users |-> NewWallet(InitBalance)]
    /\ mode = "onchain"
    /\ transactions \in BacklogLedgers
    /\ chain = [h \in HashNums |-> IF h = 1 THEN "pending" ELSE "unknown"]
    /\ nextHash = 2
    /\ InitIdle

\* Wallets with balances drawn from Balances, for the Wallet methods.
InitWallet ==
    /\ wallets \in [Users -> {NewWallet(b) : b \in Balances}]
    /\ InitRest
    /\ mode = "demo"

\* Requests to transfer_tokens.
TransferNext ==
    \/ \E r \in Requests, u \in Users, p \in Phones, a \in Amounts :
          TransferBegin(r, u, p, a)
    \/ \E r \in Requests : TransferFindRecipient(r)
    \/ \E r \in Requests, o \in {"confirmed", "failed", "pending", "rejected"} :
          TransferExecute(r, o)
    \/ \E r \in Requests : TransferDebit(r)
    \/ \E r \in Requests : TransferCredit(r)
    \/ \E r \in Requests : TransferRecord(r)
    \/ \E r \in Requests : TransferDeadlock(r)
    \/ Tick

\* Celery beat's sync_pending_transactions and the tasks it dispatches, with
\* a settlement network whose receipts never change.
SweepNext ==
    \/ \E h \in HashNums, o \in {"confirmed", "failed"} : ChainMine(h, o)
    \/ \E s \in Sweepers : SweepStart(s)
    \/ \E s \in Sweepers, ok \in BOOLEAN : SweepVerify(s, ok)
    \/ \E s \in Sweepers : SweepApply(s)
    \/ \E id \in TxIds, lost \in BOOLEAN : ProcessConfirmedTransaction(id, lost)
    \/ \E id \in TxIds, lost \in BOOLEAN : HandleFailedTransaction(id, lost)
    \/ Tick

\* Transfer requests with a settlement network that goes on mining.
TransferChainNext ==
    \/ TransferNext
    \/ \E h \in HashNums, o \in {"confirmed", "failed"} : ChainMine(h, o)

\* Calls of the Wallet methods on a loaded instance.
WalletNext ==
    \/ \E u \in Users : WalletLoad(u)
    \/ \E x \in WalletAmounts : WalletDeductBalance(x)
    \/ \E x \in WalletAmounts : WalletAddBalance(x)

\* Callbacks of the USSD payment gateway.
UssdNext ==
    \E phone \in Phones, naira \in UssdNaira, ref \in References :
        UssdPaymentCallback(phone, naira, ref)

\* Callbacks of the USSD payment gateway for every stored user.
UssdAccountNext ==
    \/ \E phone \in NewPhones : CreateSuperuser(phone)
    \/ \E phone \in Phones \cup NewPhones, naira \in UssdNaira, ref \in References :
          UssdPaymentCallback(phone, naira, ref)

\* Runs of record_price_history.
PriceNext ==
    \/ \E k \in Recorders : RecordCheck(k)
    \/ \E k \in Recorders : RecordCreate(k)
    \/ Tick

\* Account provisioning: createsuperuser and the USSD dialogue.
AccountNext ==
    \/ \E phone \in NewPhones : CreateSuperuser(phone)
    \/ \E phone \in NewPhones, level \in Levels, choice \in Choices,
          action \in SessionActions : UssdCallback(phone, level, choice, action)

\* The sweeper, its tasks and the monthly archive task.
ArchiveNext ==
    \/ SweepNext
    \/ CleanupOldTransactions

\* The sweeper, its tasks and update_investment_record.
InvestmentNext ==
    \/ SweepNext
    \/ \E id \in TxIds, lost \in BOOLEAN : UpdateInvestmentRecord(id, lost)

\* The investment product: requests to invest and the confirmation of
\* investment payments.
InvestNext ==
    \/ InvestmentNext
    \/ \E u \in Users, a \in Amounts, ok \in BOOLEAN, b \in ChainBalances :
          Invest(u, a, ok, b)

\* The daily maturity task.
MaturityNext ==
    \/ ProcessMaturedInvestments
    \/ Tick

\* The worker that runs the periodic task.
BeatSweepers == {"s1"}

\* The sweeper started again and again by Celery beat, its tasks, and a
\* network that answers every receipt request.
BacklogNext ==
    \/ \E h \in HashNums, o \in {"confirmed", "failed"} : ChainMine(h, o)
    \/ \E s \in BeatSweepers : PeriodicSweep(s)
    \/ \E s \in BeatSweepers : SweepVerify(s, TRUE)
    \/ \E s \in BeatSweepers : SweepApply(s)
    \/ \E id \in TxIds, lost \in BOOLEAN : ProcessConfirmedTransaction(id, lost)
    \/ \E id \in TxIds, lost \in BOOLEAN : HandleFailedTransaction(id, lost)

\* Reads of the on-chain balance: get_wallet and sync_wallet_balances.
WalletSyncNext ==
    \/ \E u \in Users, ok \in BOOLEAN, b \in ChainBalances : GetWallet(u, ok, b)
    \/ \E ok \in [Users -> BOOLEAN], b \in [Users -> ChainBalances] :
          SyncWalletBalances(ok, b)

Next ==
    \/ TransferNext
    \/ WalletSyncNext
    \/ CleanupOldTransactions
    \/ AccountNext
    \/ PriceNext
    \/ SweepNext
    \/ \E h \in HashNums : ChainReorg(h)
    \/ WalletNext
    \/ UssdNext

\* Transfer requests alone.
SpecTransfer == Init /\ [][TransferNext]_vars

\* The sweeper and its tasks alone, receipts never changing.
SpecSweep == Init /\ [][SweepNext]_vars

\* The sweeper and its tasks, receipts subject to reorganisation.
SpecSweepReorg == Init /\ [][SweepNext \/ \E h \in HashNums : ChainReorg(h)]_vars

\* Transfer requests and the network mining what they submitted.
SpecTransferChain == Init /\ [][TransferChainNext]_vars

\* The Wallet methods on wallets of any balance.
SpecWallet == InitWallet /\ [][WalletNext]_vars

\* The USSD payment callback alone.
SpecUssd == Init /\ [][UssdNext]_vars

\* The price history task alone.
SpecUssdAccount == Init /\ [][UssdAccountNext]_vars

SpecPrice == Init /\ [][PriceNext]_vars

\* Account provisioning alone.
SpecAccount == Init /\ [][AccountNext]_vars

\* The sweeper and the archive task on a ledger with an old row.
SpecArchive == InitArchive /\ [][ArchiveNext]_vars

\* get_wallet and sync_wallet_balances alone.
SpecWalletSync == Init /\ [][WalletSyncNext]_vars

\* Celery beat starts a run whenever the previous one of that worker is over,
\* and a started run goes through its batch.
SweepFairness ==
    \A s \in BeatSweepers :
        /\ WF_vars(PeriodicSweep(s))
        /\ WF_vars(SweepVerify(s, TRUE))
        /\ WF_vars(SweepApply(s))

SpecInvestment == InitInvestment /\ [][InvestmentNext]_vars

SpecInvest == InitInvestment /\ [][InvestNext]_vars

SpecMaturity == InitMaturity /\ [][MaturityNext]_vars

SpecBacklog == InitBacklog /\ [][BacklogNext]_vars /\ SweepFairness

Spec == Init /\ [][Next]_vars


\* ================================================================ claims
Succeeded(r) == req[r].pc = "done" /\ req[r].result = "success"

Concurrent(r, o) == o \in req[r].overlap \/ r \in req[o].overlap

\* C1: two concurrent transfers of 60 from the same sender wallet whose
\* balance is 100 never both succeed.
C1_ConcurrentTransfersNeverBothSucceed ==
    \A r \in Requests, o \in Requests :
        ( /\ r # o
          /\ Concurrent(r, o)
          /\ req[r].user = req[o].user
          /\ req[r].sw0 = 10000 /\ req[o].sw0 = 10000
          /\ req[r].amount = 6000 /\ req[o].amount = 6000 )
        => ~(Succeeded(r) /\ Succeeded(o))

\* C2: balance and fiat-equivalent are stored together: every stored wallet
\* row holds naira_equivalent = agrocoin_balance * rate, so that a reload sees
\* the balance the recomputed fiat-equivalent was computed from.
C2_StoredBalancePairedWithNaira ==
    \A u \in Users :
        wallets[u].naira_equivalent = wallets[u].agrocoin_balance * Rate

\* C3: no wallet balance, stored or in a wallet instance a request or a
\* callback works on, is ever negative; a debit is applied only when the
\* balance covers it and then takes exactly the amount (no clamping).
C3_BalanceNeverNegative ==
    /\ \A u \in Users : wallets[u].agrocoin_balance >= 0
    /\ inst.w.agrocoin_balance >= 0
    /\ \A r \in Requests :
          /\ req[r].sw.agrocoin_balance >= 0
          /\ req[r].rw.agrocoin_balance >= 0
          /\ \A u \in Users : req[r].rows[u].agrocoin_balance >= 0
          /\ (req[r].pc \in {"credit", "record"} \/ Succeeded(r)) =>
                /\ req[r].amount <= req[r].sw0
                /\ req[r].sw.agrocoin_balance = req[r].sw0 - req[r].amount

\* C3 witness: one request was refused for insufficient balance while another
\* has debited its sender.
C3_Witness ==
    \E r \in Requests, o \in Requests :
        /\ req[r].pc = "done" /\ req[r].result = "insufficient"
        /\ req[o].pc = "credit"
        /\ req[o].sw.agrocoin_balance = req[o].sw0 - req[o].amount

\* C4: in demo mode the commit of a successful transfer of x lowers the
\* stored sender balance by x, raises the stored recipient balance by x and
\* adds one confirmed Transaction linking the two wallets with amount x.
C4_DemoTransferMovesStoredBalances ==
    [][\A r \in Requests :
          ( /\ mode = "demo"
            /\ req[r].pc = "record"
            /\ req'[r].pc = "done" /\ req'[r].result = "success" )
          => LET u == req[r].user
                 p == req[r].phone
                 x == req[r].amount
             IN  /\ wallets'[u].agrocoin_balance = wallets[u].agrocoin_balance - x
                 /\ wallets'[p].agrocoin_balance = wallets[p].agrocoin_balance + x
                 /\ Len(transactions') = Len(transactions) + 1
                 /\ transactions'[Len(transactions')].from = u
                 /\ transactions'[Len(transactions')].to = p
                 /\ transactions'[Len(transactions')].amount = x
                 /\ transactions'[Len(transactions')].status = "confirmed"]_vars

Settled(id) ==
    /\ \A s \in Sweepers :
          \A k \in 1..Len(sweep[s].pending) : sweep[s].pending[k].id # id
    /\ \A t \in TaskNames : queue[<<t, id>>] = 0

\* C6: once the sweeper has confirmed a transaction and the confirm step has
\* run, the destination wallet holds its earlier balance plus the amount,
\* credited once.
C6_ConfirmCreditsDestinationOnce ==
    \A id \in 1..Len(transactions) :
        ( /\ transactions[id].status = "confirmed"
          /\ transactions[id].to # "none"
          /\ sms[<<"confirmed_recipient", id>>] >= 1
          /\ Settled(id) )
        => wallets[transactions[id].to].agrocoin_balance
               = InitBalance + transactions[id].amount

\* C7: a transaction the sweeper marked failed has had its sender credited
\* back exactly once, whatever the number of sweeps and task deliveries.
C7_FailedRefundedExactlyOnce ==
    \A id \in 1..Len(transactions) :
        ( /\ transactions[id].status = "failed"
          /\ transactions[id].from # "none"
          /\ Settled(id) )
        => refunds[id] = 1

\* C8: a transaction the sweeper marked failed has had exactly one
\* notification sent to its sender, also when two sweeps overlapped (no task
\* message was delivered twice).
C8_FailedNotifiedExactlyOnce ==
    \A id \in 1..Len(transactions) :
        ( /\ transactions[id].status = "failed"
          /\ transactions[id].from # "none"
          /\ redelivered = 0
          /\ Settled(id) )
        => sms[<<"failed_sender", id>>] = 1

\* C9: a transaction in status confirmed, failed or cancelled keeps that
\* status in every step.
C9_StatusForwardOnly ==
    [][\A id \in 1..Len(transactions) :
          transactions[id].status \in {"confirmed", "failed", "cancelled"}
          => transactions'[id].status = transactions[id].status]_vars

Unique(txs) ==
    \A i \in 1..Len(txs), j \in 1..Len(txs) :
        (i # j /\ txs[i].hash # NoHash) => txs[i].hash # txs[j].hash

\* C10: no two stored transactions share a non-null ethereum_tx_hash, and an
\* insert whose hash is already stored fails and leaves the table unchanged.
C10_UniqueExternalReference ==
    [][ /\ Unique(transactions')
        /\ \A r \in Requests :
              ( /\ req[r].pc = "record"
                /\ req'[r].pc = "done"
                /\ \E i \in 1..Len(transactions) :
                      transactions[i].hash = req[r].hash )
              => /\ transactions' = transactions
                 /\ req'[r].result = "integrity_error" ]_vars

\* C10 witness: an insert was refused for its hash and the row that holds the
\* hash is stored.
C10_Witness ==
    \E r \in Requests :
        /\ req[r].pc = "done" /\ req[r].result = "integrity_error"
        /\ Len(transactions) >= 1
        /\ transactions[1].hash # NoHash

\* The ids of the rows a sweep holds in its batch.
BatchIds(sw) == {sw.pending[k].id : k \in 1..Len(sw.pending)}

Recorded(h) == \E i \in 1..Len(transactions) : transactions[i].hash = ChainHash(h)

\* C11: a transfer takes effect as a whole or not at all: a transfer the
\* settlement network has carried out (receipt with status 1 given to the
\* call) is either still being worked on by its request or is recorded in
\* the ledger by a Transaction with its hash, also when a later step of the
\* request failed.
C11_TransferAllOrNothing ==
    \A h \in HashNums :
        chain[h] = "confirmed"
        => \/ \E r \in Requests : req[r].hash = ChainHash(h)
           \/ Recorded(h)

\* C12: a transfer request whose amount is <= 0 is answered with the
\* invalid-amount error and stores no Transaction and no wallet change; no
\* stored transfer has an amount <= 0.
C12_InvalidAmountRejected ==
    [][ /\ \A r \in Requests, u \in Users, p \in Phones, a \in Amounts :
              (a <= 0 /\ TransferBegin(r, u, p, a))
              => /\ req'[r].pc = "done"
                 /\ req'[r].result = "invalid_amount"
                 /\ UNCHANGED <<wallets, transactions>>
        /\ \A i \in 1..Len(transactions') : transactions'[i].amount > 0 ]_vars

C12_Witness ==
    \E r \in Requests : req[r].pc = "done" /\ req[r].result = "invalid_amount"

\* C13: a transfer request whose amount is above the sender's stored balance
\* is answered with the insufficient-balance error and stores no Transaction
\* and no wallet change; no request works on a transfer its sender's loaded
\* balance did not cover.
C13_InsufficientFundsRejected ==
    [][ /\ \A r \in Requests, u \in Users, p \in Phones, a \in Amounts :
              ( /\ a > 0
                /\ a > wallets[u].agrocoin_balance
                /\ TransferBegin(r, u, p, a) )
              => /\ req'[r].pc = "done"
                 /\ req'[r].result = "insufficient"
                 /\ UNCHANGED <<wallets, transactions>>
        /\ \A r \in Requests :
              req'[r].pc \notin {"idle", "done"} => req'[r].amount <= req'[r].sw0
      ]_vars

C13_Witness ==
    \E r \in Requests : req[r].pc = "done" /\ req[r].result = "insufficient"

\* The step of request r that looks at the recipient of a transfer to the
\* sender itself.
SelfStep(r) ==
    /\ req[r].pc = "find"
    /\ req[r].phone = req[r].user
    /\ req'[r].pc # "find"

\* C14 as claimed: a transfer to the sender itself is rejected as a
\* self-transfer whatever its amount and the sender's balance, and stores
\* nothing.
C14_SelfTransferAlwaysRejectedAsSelf ==
    [][ /\ \A r \in Requests, u \in Users, a \in Amounts :
              TransferBegin(r, u, u, a)
              => /\ req'[r].pc = "find" \/ req'[r].result = "self"
                 /\ UNCHANGED <<wallets, transactions>>
        /\ \A r \in Requests :
              SelfStep(r)
              => /\ req'[r].pc = "done" /\ req'[r].result = "self"
                 /\ UNCHANGED <<wallets, transactions>> ]_vars

\* C14 amended: a transfer to the sender itself is always rejected and
\* stores nothing; it is rejected as invalid amount when the amount is <= 0,
\* as insufficient balance when the amount is above the sender's stored
\* balance, and as a self-transfer otherwise.
C14_SelfTransferRejected ==
    [][ /\ \A r \in Requests, u \in Users, a \in Amounts :
              TransferBegin(r, u, u, a)
              => /\ IF a <= 0
                    THEN req'[r].pc = "done" /\ req'[r].result = "invalid_amount"
                    ELSE IF a > wallets[u].agrocoin_balance
                    THEN req'[r].pc = "done" /\ req'[r].result = "insufficient"
                    ELSE req'[r].pc = "find"
                 /\ UNCHANGED <<wallets, transactions>>
        /\ \A r \in Requests :
              SelfStep(r)
              => /\ req'[r].pc = "done" /\ req'[r].result = "self"
                 /\ UNCHANGED <<wallets, transactions>>
        /\ \A r \in Requests :
              req'[r].pc \in {"exec", "debit", "credit", "record"}
              => req'[r].phone # req'[r].user
        /\ \A i \in 1..Len(transactions') :
              transactions'[i].from # transactions'[i].to ]_vars

C14_Witness ==
    \E r \in Requests : req[r].pc = "done" /\ req[r].result = "self"

\* C15: a transfer whose receipt did not arrive within the timeout is not
\* treated as failed (no failed Transaction, no refund), and once the network
\* confirms it the ledger holds a Transaction with its hash.
C15_TimeoutIsUnknown ==
    \A h \in timedout :
        /\ \A i \in 1..Len(transactions) :
              transactions[i].hash = ChainHash(h) => transactions[i].status # "failed"
        /\ \A i \in TxIds : refunds[i] = 0
        /\ chain[h] = "confirmed" => Recorded(h)

\* C16: when the network refuses the submission, the stored wallets are as
\* before the transfer and a Transaction of the transfer is stored with
\* status failed.
C16_RejectedSubmissionRecordedFailed ==
    [][\A r \in Requests :
          (req[r].pc = "exec" /\ req'[r].result = "rejected")
          => /\ wallets' = wallets
             /\ Len(transactions') = Len(transactions) + 1
             /\ transactions'[Len(transactions')].from = req[r].user
             /\ transactions'[Len(transactions')].to = req[r].phone
             /\ transactions'[Len(transactions')].status = "failed"]_vars

Stale(tx, t) ==
    /\ tx.status \in {"pending", "processing"}
    /\ t - tx.created_at > StalenessHours

\* C17: a sweep that starts while a pending/processing transaction is older
\* than the staleness ceiling takes the transaction up or moves it out of
\* pending/processing (to manual review).
C17_StaleEscalated ==
    [][\A s \in Sweepers :
          (mode = "onchain" /\ SweepStart(s))
          => \A id \in 1..Len(transactions) :
                Stale(transactions[id], now)
                => \/ transactions'[id].status \notin {"pending", "processing"}
                   \/ id \in BatchIds(sweep'[s])]_vars

\* C18: a sweep that got pending, not_found or error for a transaction
\* leaves the ledger, the wallets and the task queue as they are, and every
\* sweep takes up every transaction that is still pending/processing.
C18_UndecidedLeftForNextSweep ==
    [][\A s \in Sweepers :
          /\ ( /\ sweep[s].pc = "apply"
               /\ sweep[s].verification.status \in {"pending", "not_found", "error"}
               /\ SweepApply(s) )
             => UNCHANGED <<transactions, wallets, queue>>
          /\ (mode = "onchain" /\ SweepStart(s))
             => \A id \in 1..Len(transactions) :
                   transactions[id].status \in {"pending", "processing"}
                   => id \in BatchIds(sweep'[s])]_vars

\* C19: deduct_balance(x) followed by add_balance(x) on a wallet instance
\* whose balance covers x > 0 gives back the balance the instance had.
C19_DebitCreditRoundTrip ==
    ( /\ Len(inst.calls) = 2
      /\ inst.calls[1].op = "deduct_balance"
      /\ inst.calls[2].op = "add_balance"
      /\ inst.calls[1].amount > 0
      /\ inst.calls[1].amount <= inst.calls[1].before.agrocoin_balance
      /\ inst.calls[2].amount = inst.calls[1].amount )
    => /\ ~inst.calls[1].raised
       /\ inst.calls[2].before.agrocoin_balance
             = inst.calls[1].before.agrocoin_balance - inst.calls[1].amount
       /\ inst.w.agrocoin_balance = inst.calls[1].before.agrocoin_balance

C19_Witness ==
    /\ Len(inst.calls) = 2
    /\ inst.calls[1].op = "deduct_balance"
    /\ inst.calls[2].op = "add_balance"
    /\ inst.calls[1].amount > 0
    /\ ~inst.calls[1].raised
    /\ inst.calls[2].amount = inst.calls[1].amount
    /\ inst.w.agrocoin_balance = inst.calls[1].before.agrocoin_balance

\* C20: add_balance raises for an amount <= 0 and then leaves the balance as
\* it was; it does not raise for an amount > 0.
C20_CreditRejectsInvalidAmount ==
    \A k \in 1..Len(inst.calls) :
        inst.calls[k].op = "add_balance"
        => /\ inst.calls[k].amount > 0 => ~inst.calls[k].raised
           /\ inst.calls[k].amount <= 0
                 => /\ inst.calls[k].raised
                    /\ k = Len(inst.calls)
                          => inst.w.agrocoin_balance
                                 = inst.calls[k].before.agrocoin_balance

\* C21: no two stored PriceHistory rows are of the same calendar day, also
\* when two runs of record_price_history overlap.
C21_OneSnapshotPerDay ==
    \A i \in 1..Len(prices), j \in 1..Len(prices) :
        i # j => Date(prices[i].timestamp) # Date(prices[j].timestamp)

\* C22: every stored user account has exactly one wallet: no phone number
\* has two wallet rows, and a phone number that has a user row has a wallet
\* row, whether its provisioning succeeded or failed.
C22_OneWalletPerUser ==
    \A p \in NewPhones :
        /\ walletRows[p] <= 1
        /\ accounts[p] # "none" => walletRows[p] = 1

\* C23: a stored Transaction keeps its amount, source, destination and fiat
\* value in every step of the sweeper, its tasks and the archive task, and
\* no row is removed; those steps write only status, confirmed_at,
\* block_number and the archive mark.
C23_TransactionImmutable ==
    [][ /\ Len(transactions') >= Len(transactions)
        /\ \A id \in 1..Len(transactions) :
              /\ transactions'[id].amount = transactions[id].amount
              /\ transactions'[id].from = transactions[id].from
              /\ transactions'[id].to = transactions[id].to
              /\ transactions'[id].naira_value = transactions[id].naira_value
              /\ transactions'[id].type = transactions[id].type
              /\ transactions'[id].hash = transactions[id].hash
              /\ transactions'[id].created_at = transactions[id].created_at ]_vars

\* C23 witness: the sweeper has written a row (confirmed or failed) and the
\* archive task has marked another.
C23_Witness ==
    /\ \E id \in 1..Len(transactions) :
          /\ transactions[id].hash = ChainHash(1)
          /\ transactions[id].status \in {"confirmed", "failed"}
    /\ \E id \in 1..Len(transactions) : transactions[id].archived

\* C24: when the network does not report a wallet's token balance, get_wallet
\* and sync_wallet_balances leave the stored agrocoin_balance and
\* naira_equivalent of that wallet as they were.
C24_BalanceReadFailureChangesNothing ==
    [][ /\ \A u \in Users, b \in ChainBalances :
              GetWallet(u, FALSE, b) => wallets'[u] = wallets[u]
        /\ \A ok \in [Users -> BOOLEAN], b \in [Users -> ChainBalances] :
              SyncWalletBalances(ok, b)
              => \A u \in Users : ~ok[u] => wallets'[u] = wallets[u] ]_vars

RECURSIVE SumOver(_, _)
\* The sum of f[u] over the users in S.
SumOver(f, S) ==
    IF S = {} THEN 0
    ELSE LET u == CHOOSE x \in S : TRUE
         IN  f[u] + SumOver(f, S \ {u})

TotalBalance == SumOver([u \in Users |-> wallets[u].agrocoin_balance], Users)

TotalNaira == SumOver([u \in Users |-> wallets[u].naira_equivalent], Users)

Reported(id) ==
    /\ id <= Len(transactions)
    /\ transactions[id].status \in {"pending", "processing"}
    /\ transactions[id].created_at >= now - StalenessHours
    /\ transactions[id].hash # NoHash
    /\ verify_transaction(transactions[id].hash, TRUE).status \in {"confirmed", "failed"}

Terminal(id) ==
    /\ id <= Len(transactions)
    /\ transactions[id].status \in {"confirmed", "failed"}

\* C26: under fair periodic sweeping, a pending or processing transaction
\* younger than 24 hours with a hash for which the network reports confirmed
\* or failed is eventually stored as confirmed or failed, however many other
\* pending transactions exist.
C26_ReportedEventuallySettled ==
    \A id \in TxIds :
        Reported(id) ~> Terminal(id)

ActiveInvestments == {i \in 1..Len(investments) : investments[i].status = "active"}

\* C27: the side effects of a confirmation run at most once per
\* transaction: the opportunity's investor count and funded total count each
\* activated investment once.
C27_InvestmentCountedOnce ==
    /\ opportunity.total_investors = Cardinality(ActiveInvestments)
    /\ opportunity.current_amount_ac =
           SumOver([i \in ActiveInvestments |-> investments[i].amount_ac],
                   ActiveInvestments)

\* The confirmed investment_return transactions paid to the investor of
\* farm investment i.
Payouts(i) ==
    {id \in 1..Len(transactions) :
        /\ transactions[id].type = "investment_return"
        /\ transactions[id].status = "confirmed"
        /\ transactions[id].to = farmInvestments[i].investor}

\* C28: an investment is matured if and only if exactly one confirmed
\* investment_return transaction exists for it, and once the daily task is
\* through with the day an investment matures on, retries included, that
\* investment is matured: it was paid out once, not zero times.
C28_PaidOutExactlyOnce ==
    \A i \in 1..Len(farmInvestments) :
        /\ farmInvestments[i].status = "matured" <=> Cardinality(Payouts(i)) = 1
        /\ (/\ maturity.pc = "gave_up"
            /\ maturity.day = farmInvestments[i].maturity_date)
              => farmInvestments[i].status = "matured"

\* The stored wallet of u shows a debit of x in one of its columns.
Debited(u, x) ==
    \/ wallets[u].agrocoin_balance <= InitBalance - x
    \/ wallets[u].naira_equivalent <= (InitBalance - x) * Rate

C29_PurchaseIffCredit ==
    [][ \A phone \in Phones \cup NewPhones, naira \in UssdNaira, ref \in References :
            UssdPaymentCallback(phone, naira, ref) =>
                /\ Len(purchases') > Len(purchases)
                       <=> /\ inst'.user = phone
                           /\ inst'.calls # <<>>
                           /\ inst'.calls[1].op = "add_balance"
                           /\ inst'.calls[1].amount = ussd_agrocoin_amount(naira)
                /\ ReferenceTaken(purchases, ref)
                       => /\ purchases' = purchases
                          /\ wallets' = wallets ]_vars

====
